---- MODULE Spec2Model ----
(***************************************************************************)
(* MediaRec (www/browser/MediaRec.js): the registry of media handles, the  *)
(* operations of a handle and the dispatch of status events, in the two    *)
(* variants the file holds: the standalone one that drives an Audio node   *)
(* (lines 24-259) and the one that forwards to cordova's exec              *)
(* (lines 282-520).                                                        *)
(*                                                                         *)
(* One action is one JavaScript turn: a call of the API, a listener of the *)
(* Audio node, a reply of the executor or a pushed status message.  Every  *)
(* turn writes what it did, in order, to `trace`; the claims read it.      *)
(* The callbacks given to the constructor return normally; the success     *)
(* callback handed to getCurrentPosition may raise.                        *)
(*                                                                         *)
(* The executor-backed variant starts with cordova's startup: the module   *)
(* is loaded, onCordovaReady fires, then deviceready. The application      *)
(* calls the API after deviceready, as cordova asks of it. The standalone  *)
(* variant has no part in the startup.                                     *)
(***************************************************************************)
EXTENDS Integers, Sequences, FiniteSets, TLC

VARIABLES variant, platformId, heap, mediaObjects, pending, trace, lastDuration,
          startup, gate, channel

vars == <<variant, platformId, heap, mediaObjects, pending, trace, lastDuration,
          startup, gate, channel>>

\* ---------------------------------------------------------------- bounds
MaxHandles == 1
MaxPending == 1

\* ------------------------------------------------------ program constants
MEDIA_STATE == 1
MEDIA_DURATION == 2
MEDIA_POSITION == 3
MEDIA_ERROR == 9
MEDIA_NONE == 0
MEDIA_STARTING == 1
MEDIA_RUNNING == 2
MEDIA_PAUSED == 3
MEDIA_STOPPED == 4
\* a message kind that no case of the switch names
UnhandledMsgType == MEDIA_POSITION + 1
MsgTypes == {MEDIA_STATE, MEDIA_DURATION, MEDIA_POSITION, MEDIA_ERROR, UnhandledMsgType}

\* MediaError codes of the HTML media element
MEDIA_ERR_ABORTED == 1
MEDIA_ERR_SRC_NOT_SUPPORTED == 4

\* ------------------------------------------------------ JavaScript values
\* A value is a record: a number, a string (the decimal text of n, or some
\* other text s), NaN, undefined, an object with a code, or a thrown error.
Num(n) == [t |-> "num", n |-> n, s |-> ""]
Digits(n) == [t |-> "str", n |-> n, s |-> "digits"]
Text(s) == [t |-> "str", n |-> 0, s |-> s]
NaN == [t |-> "nan", n |-> 0, s |-> ""]
Undefined == [t |-> "undefined", n |-> 0, s |-> ""]
CodeObject(c) == [t |-> "obj", n |-> c, s |-> "code"]
Err(s) == [t |-> "err", n |-> 0, s |-> s]
Uuid(u) == [t |-> "str", n |-> u, s |-> "uuid"]

\* Number(value)
Number(v) ==
    IF v.t = "num" THEN v
    ELSE IF v.t = "str" /\ v.s = "digits" THEN Num(v.n)
    ELSE NaN

\* value === number
StrictEquals(v, n) == v = Num(n)

\* value == number: a string operand is converted with Number first
LooseEquals(v, n) == v.t \in {"num", "str"} /\ Number(v) = Num(n)

\* truthiness: e.target.duration || -1
Truthy(v) ==
    CASE v.t = "num" -> v.n # 0
      [] v.t = "str" -> TRUE
      [] v.t \in {"nan", "undefined"} -> FALSE
      [] OTHER -> TRUE

\* ------------------------------------------------------------ the inputs
UUIDs == 1 .. (MaxHandles + 1)
Srcs == {"a.mp3"}
\* the callback arguments of a construction: which of the three are functions
CallbackChoices ==
    { [successCallback |-> TRUE, errorCallback |-> TRUE, statusCallback |-> TRUE],
      [successCallback |-> FALSE, errorCallback |-> FALSE, statusCallback |-> FALSE],
      [successCallback |-> TRUE, errorCallback |-> FALSE, statusCallback |-> FALSE],
      [successCallback |-> FALSE, errorCallback |-> TRUE, statusCallback |-> TRUE] }
\* the values a status event of each kind carries
EventValues(msgType) ==
    CASE msgType = MEDIA_STATE ->
           {Num(MEDIA_RUNNING), Num(MEDIA_STOPPED), Digits(MEDIA_STOPPED)}
      [] msgType = MEDIA_DURATION -> {Num(MEDIA_RUNNING), Num(MEDIA_STOPPED)}
      [] msgType = MEDIA_POSITION -> {Num(MEDIA_RUNNING), Digits(MEDIA_STOPPED)}
      [] msgType = MEDIA_ERROR -> {CodeObject(MEDIA_ERR_ABORTED)}
      [] OTHER -> {Num(MEDIA_RUNNING)}
\* the values the executor answers a request with
ReplyValues == {Num(MEDIA_RUNNING), Digits(MEDIA_STOPPED)}
\* what the Audio node reports as its duration
NodeDurations == {Num(0), Num(MEDIA_STOPPED), NaN}
\* what the Audio node reports as currentTime
NodeTimes == {Num(0), Num(MEDIA_RUNNING)}
\* error codes of the Audio node
NodeErrorCodes == MEDIA_ERR_ABORTED .. MEDIA_ERR_SRC_NOT_SUPPORTED
SeekTargets == {0, 2000}
Platforms == {"android", "ios", "amazon-fireos", "windowsphone"}
\* the action names of the messages the native side pushes
MessageActions == {"status", "progress"}

\* -------------------------------------------------------------- the turn
\* The working state of a turn: the heap, the registry, the requests in
\* flight, the log of the turn and the exception now propagating ("" = none);
\* and of the startup: how far it is, the onMediaPluginReady gate and the
\* message channel registered with the executor.
Entry(ev, obj, k, arg) == [ev |-> ev, obj |-> obj, k |-> k, arg |-> arg]

Log(st, e) == [st EXCEPT !.trace = Append(@, e)]

Throw(st, name) == [st EXCEPT !.exc = name]

Caught(st) == [st EXCEPT !.exc = ""]

Begin(name, obj, k, arg) ==
    [heap |-> heap, mediaObjects |-> mediaObjects, pending |-> pending,
     exc |-> "", trace |-> <<Entry(name, obj, k, arg)>>,
     startup |-> startup, gate |-> gate, channel |-> channel]

\* History for the claims about getDuration: the value of the last duration
\* event dispatched for the identifier id in the turn tr, or old if none was.
LastDurationIn(tr, id, old) ==
    LET at == {i \in 1 .. Len(tr) : /\ tr[i].ev = "dispatch"
                                     /\ tr[i].k = MEDIA_DURATION
                                     /\ tr[i].obj = id}
    IN IF at = {} THEN old
       ELSE tr[CHOOSE i \in at : \A j \in at : j <= i].arg

Commit(st) ==
    /\ heap' = st.heap
    /\ mediaObjects' = st.mediaObjects
    /\ pending' = st.pending
    /\ trace' = IF st.exc = "" THEN st.trace
                ELSE Append(st.trace, Entry("raise", 0, 0, Err(st.exc)))
    /\ lastDuration' =
          [o \in 1 .. Len(st.heap) |->
             LastDurationIn(st.trace, st.heap[o].id,
                            IF o <= Len(lastDuration) THEN lastDuration[o] ELSE Undefined)]
    /\ startup' = st.startup
    /\ gate' = st.gate
    /\ channel' = st.channel
    /\ UNCHANGED <<variant, platformId>>

Objs == 1 .. Len(heap)

\* utils.createUUID(): a fresh identifier. Identifiers are opaque, so the
\* model takes the greatest unused one of the pool.
createUUID(reg) ==
    CHOOSE u \in UUIDs \ DOMAIN reg : \A v \in UUIDs \ DOMAIN reg : v <= u

\* the test of the MEDIA_STATE case: === in the standalone variant, == in
\* the executor-backed one
IsStopped(value) ==
    IF variant = "browser" THEN StrictEquals(value, MEDIA_STOPPED)
    ELSE LooseEquals(value, MEDIA_STOPPED)

\* ------------------------------------------------------ MediaRec.onStatus
\* (mutant) the success callback is called before the status callback
C2_onStatusStateSuccessFirst(st, media, value) ==
    LET s1 == IF IsStopped(value) /\ st.heap[media].successCallback
              THEN Log(st, Entry("successCallback", media, 0, Undefined))
              ELSE st
    IN IF st.heap[media].statusCallback
       THEN Log(s1, Entry("statusCallback", media, 0, value))
       ELSE s1

\* (mutant) a Paused state counts as the end of the playback too
C20_onStatusStateSuccessOnPaused(st, media, value) ==
    LET s1 == IF st.heap[media].statusCallback
              THEN Log(st, Entry("statusCallback", media, 0, value))
              ELSE st
    IN IF (IsStopped(value) \/ value = Num(MEDIA_PAUSED)) /\ st.heap[media].successCallback
       THEN Log(s1, Entry("successCallback", media, 0, Undefined))
       ELSE s1

\* (mutant) the status callback is given the value coerced to a number
C17_onStatusStateCoerced(st, media, value) ==
    LET s1 == IF st.heap[media].statusCallback
              THEN Log(st, Entry("statusCallback", media, 0, Number(value)))
              ELSE st
    IN IF IsStopped(value) /\ st.heap[media].successCallback
       THEN Log(s1, Entry("successCallback", media, 0, Undefined))
       ELSE s1

\* case MediaRec.MEDIA_STATE
onStatusState(st, media, value) ==
    LET s1 == IF st.heap[media].statusCallback
              THEN Log(st, Entry("statusCallback", media, 0, value))
              ELSE st
    IN IF IsStopped(value) /\ st.heap[media].successCallback
       THEN Log(s1, Entry("successCallback", media, 0, Undefined))
       ELSE s1

\* (mutant) the duration is stored in the position field
C5_onStatusDurationToPosition(st, media, value) ==
    [st EXCEPT !.heap[media]._position = value]

\* case MediaRec.MEDIA_DURATION
onStatusDuration(st, media, value) == [st EXCEPT !.heap[media]._duration = value]

\* (mutant) the MEDIA_ERROR case lacks its break and falls into MEDIA_POSITION
C16_onStatusErrorFallsThrough(st, media, value) ==
    LET s1 == IF st.heap[media].errorCallback
              THEN Log(st, Entry("errorCallback", media, 0, value))
              ELSE st
    IN [s1 EXCEPT !.heap[media]._position = Number(value)]

\* case MediaRec.MEDIA_ERROR
onStatusError(st, media, value) ==
    IF st.heap[media].errorCallback
    THEN Log(st, Entry("errorCallback", media, 0, value))
    ELSE st

\* case MediaRec.MEDIA_POSITION
onStatusPosition(st, media, value) ==
    [st EXCEPT !.heap[media]._position = Number(value)]

\* (mutant) an unknown identifier falls back to some registered handle
C4_onStatusAnyHandle(st, id, msgType, value) ==
    LET s0 == Log(st, Entry("dispatch", id, msgType, value))
    IN IF DOMAIN st.mediaObjects # {}
       THEN LET key == IF id \in DOMAIN st.mediaObjects THEN id
                       ELSE CHOOSE u \in DOMAIN st.mediaObjects : TRUE
                media == st.mediaObjects[key]
            IN CASE msgType = MEDIA_STATE -> onStatusState(s0, media, value)
                 [] msgType = MEDIA_DURATION -> onStatusDuration(s0, media, value)
                 [] msgType = MEDIA_ERROR -> onStatusError(s0, media, value)
                 [] msgType = MEDIA_POSITION -> onStatusPosition(s0, media, value)
                 [] OTHER -> Log(s0, Entry("console.error", 0, msgType, Text("Unhandled")))
       ELSE Log(s0, Entry("console.error", id, 0, Text("unknown media")))

\* The first entry a dispatch logs is the event itself.
onStatus(st, id, msgType, value) ==
    LET s0 == Log(st, Entry("dispatch", id, msgType, value))
    IN IF id \in DOMAIN st.mediaObjects
       THEN LET media == st.mediaObjects[id]
            IN CASE msgType = MEDIA_STATE -> onStatusState(s0, media, value)
                 [] msgType = MEDIA_DURATION -> onStatusDuration(s0, media, value)
                 [] msgType = MEDIA_ERROR -> onStatusError(s0, media, value)
                 [] msgType = MEDIA_POSITION -> onStatusPosition(s0, media, value)
                 [] OTHER -> Log(s0, Entry("console.error", 0, msgType, Text("Unhandled")))
       ELSE Log(s0, Entry("console.error", id, 0, Text("unknown media")))

\* the handle object the constructor fills in
NewHandle(id, src, cbs) ==
    [id |-> id, src |-> src,
     successCallback |-> cbs.successCallback,
     errorCallback |-> cbs.errorCallback,
     statusCallback |-> cbs.statusCallback,
     _duration |-> Num(-1), _position |-> Num(-1),
     _db |-> Undefined, node |-> "none"]

\* ------------------------------------------------- the standalone variant
\* createNode(media): new Audio() with its listeners; audioOk = FALSE is the
\* build of the node raising.
createNode(st, o, audioOk) ==
    IF audioOk THEN Log(st, Entry("new Audio", o, 0, Text(st.heap[o].src)))
    ELSE Throw(st, "AudioError")

\* (mutant) no try/catch around createNode
C15_TryCreateNodeNoCatch(st, o, audioOk) ==
    LET c == createNode(st, o, audioOk)
    IN IF c.exc = "" THEN [c EXCEPT !.heap[o].node = "live"] ELSE c

\* this.node = createNode(this) inside try/catch
TryCreateNode(st, o, audioOk) ==
    LET c == createNode(st, o, audioOk)
    IN IF c.exc = ""
       THEN [c EXCEPT !.heap[o].node = "live"]
       ELSE onStatus(Caught(c), c.heap[o].id, MEDIA_ERROR, CodeObject(MEDIA_ERR_ABORTED))

\* (mutant) the constructor forgets mediaObjects[this.id] = this
C6_MediaRecNotRegistered(st, src, cbs, audioOk) ==
    LET id == createUUID(st.mediaObjects)
        o == Len(st.heap) + 1
        s1 == [st EXCEPT !.heap = Append(@, NewHandle(id, src, cbs))]
        s2 == onStatus(s1, id, MEDIA_STATE, Num(MEDIA_STARTING))
    IN TryCreateNode(s2, o, audioOk)

\* the constructor, after argscheck.checkArgs passed
MediaRec(st, src, cbs, audioOk) ==
    LET id == createUUID(st.mediaObjects)
        o == Len(st.heap) + 1
        s1 == [st EXCEPT !.mediaObjects = (id :> o) @@ @,
                         !.heap = Append(@, NewHandle(id, src, cbs))]
        s2 == onStatus(s1, id, MEDIA_STATE, Num(MEDIA_STARTING))
    IN TryCreateNode(s2, o, audioOk)

play(st, o, audioOk) ==
    LET s1 == IF st.heap[o].node # "live" THEN TryCreateNode(st, o, audioOk) ELSE st
    IN IF s1.heap[o].node = "live"
       THEN Log(s1, Entry("node.play", o, 0, Undefined))
       ELSE Throw(s1, "TypeError")

\* A use of this.node: a TypeError when the handle has no node; else the
\* node does it (an entry with the argument) or raises (an entry with the error).
NodeDoes(st, o, what, arg, nodeOk) ==
    IF st.heap[o].node # "live" THEN Throw(st, "TypeError")
    ELSE IF nodeOk THEN Log(st, Entry(what, o, 0, arg))
    ELSE Throw(Log(st, Entry(what, o, 0, Err("NodeError"))), "NodeError")

pause(st, o, nodeOk) ==
    LET s1 == NodeDoes(st, o, "node.pause", Undefined, nodeOk)
    IN IF s1.exc = ""
       THEN onStatus(s1, st.heap[o].id, MEDIA_STATE, Num(MEDIA_PAUSED))
       ELSE onStatus(Caught(s1), st.heap[o].id, MEDIA_ERROR, Err(s1.exc))

seekTo(st, o, milliseconds, nodeOk) ==
    LET s1 == NodeDoes(st, o, "node.currentTime=", Num(milliseconds \div 1000), nodeOk)
    IN IF s1.exc = ""
       THEN s1
       ELSE onStatus(Caught(s1), st.heap[o].id, MEDIA_ERROR, Err(s1.exc))

\* (mutant) stop forgets to seek to zero
C3_stopNoSeek(st, o, pauseOk, seekOk) ==
    onStatus(pause(st, o, pauseOk), st.heap[o].id, MEDIA_STATE, Num(MEDIA_STOPPED))

stop(st, o, pauseOk, seekOk) ==
    LET s1 == pause(st, o, pauseOk)
        s2 == seekTo(s1, o, 0, seekOk)
        s3 == onStatus(s2, st.heap[o].id, MEDIA_STATE, Num(MEDIA_STOPPED))
        failed == IF s1.exc # "" THEN s1 ELSE IF s2.exc # "" THEN s2 ELSE s3
    IN IF failed.exc = "" THEN s3
       ELSE onStatus(Caught(failed), st.heap[o].id, MEDIA_ERROR, Err(failed.exc))

getDuration(st, o) == Log(st, Entry("return", o, 0, st.heap[o]._duration))

\* (mutant) the position is handed to the caller without the position event
C8_getCurrentPositionNoStatus(st, o, p, successRaises) ==
    IF st.heap[o].node = "live"
    THEN LET s0 == Log(st, Entry("node.currentTime", o, 0, p))
             s2 == Log(s0, Entry("success", o, 0, p))
         IN IF successRaises
            THEN Log(s2, Entry("fail", o, 0, Err("CallbackError")))
            ELSE s2
    ELSE Log(st, Entry("fail", o, 0, Err("TypeError")))

getCurrentPosition(st, o, p, successRaises) ==
    IF st.heap[o].node = "live"
    THEN LET s0 == Log(st, Entry("node.currentTime", o, 0, p))
             s1 == onStatus(s0, st.heap[o].id, MEDIA_POSITION, p)
             s2 == Log(s1, Entry("success", o, 0, p))
         IN IF successRaises
            THEN Log(s2, Entry("fail", o, 0, Err("CallbackError")))
            ELSE s2
    ELSE Log(st, Entry("fail", o, 0, Err("TypeError")))

startRecord(st, o) == onStatus(st, st.heap[o].id, MEDIA_ERROR, Text("Not supported"))

stopRecord(st, o) == onStatus(st, st.heap[o].id, MEDIA_ERROR, Text("Not supported"))

\* pauseRecord, resumeRecord and startRecordWithCompression: the prototype of
\* the standalone variant defines none of them, so the call is a TypeError
\* (undefined is not a function).
notAFunction(st) == Throw(st, "TypeError")

\* (mutant) release also deletes the handle's entry of the registry
C7_releaseUnregisters(st, o) ==
    [st EXCEPT !.heap[o].node = IF @ = "live" THEN "orphan" ELSE @,
               !.mediaObjects = [u \in DOMAIN @ \ {st.heap[o].id} |-> @[u]]]

\* delete this.node: the handle forgets the node; the node and its listeners
\* live on
release(st, o) ==
    [st EXCEPT !.heap[o].node = IF @ = "live" THEN "orphan" ELSE @]

setVolume(st, o, volume) ==
    IF st.heap[o].node = "live"
    THEN Log(st, Entry("node.volume=", o, 0, volume))
    ELSE Throw(st, "TypeError")

\* the listeners createNode attaches to the node
onloadstart(st, o) == onStatus(st, st.heap[o].id, MEDIA_STATE, Num(MEDIA_STARTING))

onplaying(st, o) == onStatus(st, st.heap[o].id, MEDIA_STATE, Num(MEDIA_RUNNING))

ondurationchange(st, o, duration) ==
    onStatus(st, st.heap[o].id, MEDIA_DURATION,
             IF Truthy(duration) THEN duration ELSE Num(-1))

\* (mutant) the error of the node is passed on as it is
C13_onerrorUntranslated(st, o, code) ==
    onStatus(st, st.heap[o].id, MEDIA_ERROR, CodeObject(code))

onerror(st, o, code) ==
    LET err == IF code = MEDIA_ERR_SRC_NOT_SUPPORTED
               THEN CodeObject(MEDIA_ERR_ABORTED)
               ELSE CodeObject(code)
    IN onStatus(st, st.heap[o].id, MEDIA_ERROR, err)

onended(st, o) == onStatus(st, st.heap[o].id, MEDIA_STATE, Num(MEDIA_STOPPED))

\* ---------------------------------------------- the executor-backed variant
\* exec(success, fail, service, action, args): the request goes to the
\* executor, which answers it in a later turn. win and fail name the two
\* callbacks; raises tells whether the caller's success callback raises.
Request(o, win, fail, service, action, args, raises) ==
    [obj |-> o, win |-> win, fail |-> fail, service |-> service,
     action |-> action, args |-> args, raises |-> raises]

exec(st, o, win, fail, service, action, args, raises) ==
    [Log(st, Entry("exec", o, 0, Text(action)))
       EXCEPT !.pending = Append(@, Request(o, win, fail, service, action, args, raises))]

\* this.errorCallback, read when the request is made
ErrorCallbackOf(st, o) == IF st.heap[o].errorCallback THEN "errorCallback" ELSE "null"

IdOf(st, o) == Uuid(st.heap[o].id)

SrcOf(st, o) == Text(st.heap[o].src)

\* the constructor, after argscheck.checkArgs passed
execMediaRec(st, src, cbs) ==
    LET id == createUUID(st.mediaObjects)
        o == Len(st.heap) + 1
        s1 == [st EXCEPT !.mediaObjects = (id :> o) @@ @,
                         !.heap = Append(@, NewHandle(id, src, cbs))]
    IN exec(s1, o, "null", ErrorCallbackOf(s1, o), "MediaRec", "create",
            <<IdOf(s1, o), SrcOf(s1, o)>>, FALSE)

\* MediaRec.get(id): the handle registered under id (0 stands for undefined)
get(id) == IF id \in DOMAIN mediaObjects THEN mediaObjects[id] ELSE 0

execPlay(st, o, options) ==
    exec(st, o, "null", "null", "MediaRec", "startPlayingAudio",
         <<IdOf(st, o), SrcOf(st, o), options>>, FALSE)

execStop(st, o) ==
    exec(st, o, "stop", ErrorCallbackOf(st, o), "MediaRec", "stopPlayingAudio",
         <<IdOf(st, o)>>, FALSE)

execSeekTo(st, o, milliseconds) ==
    exec(st, o, "seekTo", ErrorCallbackOf(st, o), "MediaRec", "seekToAudio",
         <<IdOf(st, o), Num(milliseconds)>>, FALSE)

\* (mutant) pause hands exec no failure callback
C10_execPauseNoFailure(st, o) ==
    exec(st, o, "null", "null", "MediaRec", "pausePlayingAudio", <<IdOf(st, o)>>, FALSE)

execPause(st, o) ==
    exec(st, o, "null", ErrorCallbackOf(st, o), "MediaRec", "pausePlayingAudio",
         <<IdOf(st, o)>>, FALSE)

execGetCurrentPosition(st, o, successRaises) ==
    exec(st, o, "getCurrentPosition", "fail", "MediaRec", "getCurrentPositionAudio",
         <<IdOf(st, o)>>, successRaises)

execStartRecord(st, o) ==
    exec(st, o, "null", ErrorCallbackOf(st, o), "MediaRec", "startRecordingAudio",
         <<IdOf(st, o), SrcOf(st, o)>>, FALSE)

startRecordWithCompression(st, o, options) ==
    exec(st, o, "null", ErrorCallbackOf(st, o), "MediaRec",
         "startRecordingAudioWithCompression",
         <<IdOf(st, o), SrcOf(st, o), options>>, FALSE)

execStopRecord(st, o) ==
    exec(st, o, "null", ErrorCallbackOf(st, o), "MediaRec", "stopRecordingAudio",
         <<IdOf(st, o)>>, FALSE)

pauseRecord(st, o) ==
    exec(st, o, "null", ErrorCallbackOf(st, o), "MediaRec", "pauseRecordingAudio",
         <<IdOf(st, o)>>, FALSE)

\* (mutant) resumeRecord leaves the identifier out of the arguments
C11_resumeRecordNoId(st, o) ==
    exec(st, o, "null", ErrorCallbackOf(st, o), "MediaRec", "resumeRecordingAudio",
         <<SrcOf(st, o)>>, FALSE)

resumeRecord(st, o) ==
    exec(st, o, "null", ErrorCallbackOf(st, o), "MediaRec", "resumeRecordingAudio",
         <<IdOf(st, o), SrcOf(st, o)>>, FALSE)

\* defined on android and on ios only; elsewhere the call is a TypeError
getRecordLevels(st, o, successRaises) ==
    IF platformId = "android"
    THEN exec(st, o, "getRecordLevels", "fail", "MediaRec", "getRecordDbLevel",
              <<IdOf(st, o)>>, successRaises)
    ELSE IF platformId = "ios"
    THEN exec(st, o, "success", "fail", "MediaRec", "getAudioRecordingLevels",
              <<IdOf(st, o)>>, successRaises)
    ELSE Throw(st, "TypeError")

execRelease(st, o) ==
    exec(st, o, "null", ErrorCallbackOf(st, o), "MediaRec", "release",
         <<IdOf(st, o)>>, FALSE)

execSetVolume(st, o, volume) ==
    exec(st, o, "null", "null", "MediaRec", "setVolume",
         <<IdOf(st, o), volume>>, FALSE)

\* the caller's success callback, called with p
CallSuccess(st, r, p) ==
    LET s1 == Log(st, Entry("success", r.obj, 0, p))
    IN IF r.raises THEN Throw(s1, "CallbackError") ELSE s1

\* the success callbacks the operations hand to exec
successOf(st, r, p) ==
    CASE r.win = "stop" -> [st EXCEPT !.heap[r.obj]._position = Num(0)]
      [] r.win = "seekTo" -> [st EXCEPT !.heap[r.obj]._position = p]
      [] r.win = "getCurrentPosition" ->
           CallSuccess([st EXCEPT !.heap[r.obj]._position = p], r, p)
      [] r.win = "getRecordLevels" ->
           CallSuccess([st EXCEPT !.heap[r.obj]._db = p], r, p)
      [] r.win = "success" -> CallSuccess(st, r, p)
      [] OTHER -> st

\* the failure callbacks the operations hand to exec
failureOf(st, r, err) ==
    CASE r.fail = "errorCallback" -> Log(st, Entry("errorCallback", r.obj, 0, err))
      [] r.fail = "fail" -> Log(st, Entry("fail", r.obj, 0, err))
      [] OTHER -> st

RemoveAt(seq, i) == SubSeq(seq, 1, i - 1) \o SubSeq(seq, i + 1, Len(seq))

\* the executor answers request i
execReply(st, i, ok, value) ==
    LET r == st.pending[i]
        s1 == [Log(st, Entry("reply", r.obj, 0, value)) EXCEPT !.pending = RemoveAt(@, i)]
    IN IF ok THEN successOf(s1, r, value) ELSE failureOf(s1, r, value)

\* ------------------------------------------- the channel of native messages
\* the platforms whose native side pushes its messages through a channel
ChannelPlatforms == {"android", "amazon-fireos", "windowsphone"}

\* When the module is loaded: channel.createSticky('onMediaPluginReady') and
\* channel.waitForInitialization('onMediaPluginReady') on the channel
\* platforms; elsewhere no gate exists.
GateAtLoad(p) == IF p \in ChannelPlatforms THEN "waiting" ELSE "none"

\* (mutant) every message is dispatched, whatever its action
C14_onMessageFromNativeAnyAction(st, msg) ==
    onStatus(st, msg.status.id, msg.status.msgType, msg.status.value)

\* onMessageFromNative(msg)
onMessageFromNative(st, msg) ==
    IF msg.action = "status"
    THEN onStatus(st, msg.status.id, msg.status.msgType, msg.status.value)
    ELSE Throw(st, "Error")

\* exec(onMessageFromNative, undefined, 'MediaRec', 'messageChannel', []):
\* the executor keeps this request and answers it once per message
messageChannel(st) ==
    [Log(st, Entry("exec", 0, 0, Text("messageChannel")))
       EXCEPT !.channel = Append(@, Request(0, "onMessageFromNative", "undefined",
                                            "MediaRec", "messageChannel", <<>>, FALSE))]

\* channel.initializationComplete('onMediaPluginReady')
initializationComplete(st) ==
    [Log(st, Entry("initializationComplete", 0, 0, Text("onMediaPluginReady")))
       EXCEPT !.gate = "complete"]

\* (mutant) the gate is completed and the channel is never registered
C18_onCordovaReadyNoChannel(st) == initializationComplete(st)

\* the function subscribed to channel.onCordovaReady
onCordovaReady(st) == initializationComplete(messageChannel(st))

\* ------------------------------------------------------------ the actions
Init ==
    /\ variant \in {"browser", "executor"}
    /\ platformId \in (IF variant = "browser" THEN {"browser"} ELSE Platforms)
    /\ heap = <<>>
    /\ mediaObjects = <<>>
    /\ pending = <<>>
    /\ trace = <<>>
    /\ lastDuration = <<>>
    /\ startup = (IF variant = "browser" THEN "deviceready" ELSE "loaded")
    /\ gate = GateAtLoad(platformId)
    /\ channel = <<>>

Browser == variant = "browser"

Executor == variant = "executor"

Room == Len(pending) < MaxPending

\* deviceready has fired: the application runs
Started == startup = "deviceready"

\* new MediaRec(...) with arguments argscheck.checkArgs rejects
ConstructRejected ==
    /\ Started /\ Len(heap) < MaxHandles
    /\ Commit(Throw(Begin("MediaRec", Len(heap) + 1, 0, Undefined), "TypeError"))

BrowserConstruct ==
    /\ Started /\ Browser /\ Len(heap) < MaxHandles
    /\ \E src \in Srcs, cbs \in CallbackChoices, audioOk \in BOOLEAN :
          Commit(MediaRec(Begin("MediaRec", Len(heap) + 1, 0, Text(src)), src, cbs, audioOk))

BrowserPlay ==
    /\ Started /\ Browser
    /\ \E o \in Objs, audioOk \in BOOLEAN :
          Commit(play(Begin("play", o, 0, Undefined), o, audioOk))

BrowserStop ==
    /\ Started /\ Browser
    /\ \E o \in Objs, pauseOk \in BOOLEAN, seekOk \in BOOLEAN :
          Commit(stop(Begin("stop", o, 0, Undefined), o, pauseOk, seekOk))

BrowserSeekTo ==
    /\ Started /\ Browser
    /\ \E o \in Objs, ms \in SeekTargets, nodeOk \in BOOLEAN :
          Commit(seekTo(Begin("seekTo", o, 0, Num(ms)), o, ms, nodeOk))

BrowserPause ==
    /\ Started /\ Browser
    /\ \E o \in Objs, nodeOk \in BOOLEAN :
          Commit(pause(Begin("pause", o, 0, Undefined), o, nodeOk))

GetDuration ==
    /\ Started
    /\ \E o \in Objs : Commit(getDuration(Begin("getDuration", o, 0, Undefined), o))

BrowserGetCurrentPosition ==
    /\ Started /\ Browser
    /\ \E o \in Objs, p \in NodeTimes, successRaises \in BOOLEAN :
          Commit(getCurrentPosition(Begin("getCurrentPosition", o, 0, Undefined),
                                    o, p, successRaises))

BrowserStartRecord ==
    /\ Started /\ Browser
    /\ \E o \in Objs : Commit(startRecord(Begin("startRecord", o, 0, Undefined), o))

BrowserStopRecord ==
    /\ Started /\ Browser
    /\ \E o \in Objs : Commit(stopRecord(Begin("stopRecord", o, 0, Undefined), o))

\* three calls the standalone prototype has no method for
BrowserPauseRecord ==
    /\ Started /\ Browser
    /\ \E o \in Objs : Commit(notAFunction(Begin("pauseRecord", o, 0, Undefined)))

BrowserResumeRecord ==
    /\ Started /\ Browser
    /\ \E o \in Objs : Commit(notAFunction(Begin("resumeRecord", o, 0, Undefined)))

BrowserStartRecordWithCompression ==
    /\ Started /\ Browser
    /\ \E o \in Objs :
          Commit(notAFunction(Begin("startRecordWithCompression", o, 0, Undefined)))

BrowserRelease ==
    /\ Started /\ Browser
    /\ \E o \in Objs : Commit(release(Begin("release", o, 0, Undefined), o))

BrowserSetVolume ==
    /\ Started /\ Browser
    /\ \E o \in Objs : Commit(setVolume(Begin("setVolume", o, 0, Num(1)), o, Num(1)))

\* the Audio node of a handle, live or orphaned, fires a listener
NodeLoadStart ==
    /\ Started /\ Browser
    /\ \E o \in Objs : /\ heap[o].node # "none"
                       /\ Commit(onloadstart(Begin("onloadstart", o, 0, Undefined), o))

NodePlaying ==
    /\ Started /\ Browser
    /\ \E o \in Objs : /\ heap[o].node # "none"
                       /\ Commit(onplaying(Begin("onplaying", o, 0, Undefined), o))

NodeDurationChange ==
    /\ Started /\ Browser
    /\ \E o \in Objs, d \in NodeDurations :
          /\ heap[o].node # "none"
          /\ Commit(ondurationchange(Begin("ondurationchange", o, 0, d), o, d))

NodeError ==
    /\ Started /\ Browser
    /\ \E o \in Objs, code \in NodeErrorCodes :
          /\ heap[o].node # "none"
          /\ Commit(onerror(Begin("onerror", o, code, CodeObject(code)), o, code))

NodeEnded ==
    /\ Started /\ Browser
    /\ \E o \in Objs : /\ heap[o].node # "none"
                       /\ Commit(onended(Begin("onended", o, 0, Undefined), o))

\* cordova fires onCordovaReady, once: the subscribers run
CordovaReady ==
    /\ startup = "loaded"
    /\ LET st == Begin("onCordovaReady", 0, 0, Undefined)
           s1 == IF platformId \in ChannelPlatforms THEN onCordovaReady(st) ELSE st
       IN Commit([s1 EXCEPT !.startup = "cordovaready"])

\* cordova fires deviceready once onCordovaReady has fired and every gate
\* that waitForInitialization announced is complete
DeviceReady ==
    /\ startup = "cordovaready"
    /\ gate # "waiting"
    /\ Commit([Begin("deviceready", 0, 0, Undefined) EXCEPT !.startup = "deviceready"])

\* the executor answers the messageChannel request with a message; one of
\* another action than "status" carries the payload of a state event
OnMessageFromNative ==
    /\ Executor /\ channel # <<>>
    /\ \E action \in MessageActions, id \in UUIDs :
          \E msgType \in (IF action = "status" THEN MsgTypes ELSE {MEDIA_STATE}) :
          \E value \in EventValues(msgType) :
             LET msg == [action |-> action,
                         status |-> [id |-> id, msgType |-> msgType, value |-> value]]
                 st == Log(Begin("onMessageFromNative", id, msgType, value),
                           Entry("msg.action", 0, 0, Text(action)))
             IN Commit(onMessageFromNative(st, msg))

\* MediaRec.onStatus(id, msgType, value) called from outside: the native side
\* of a platform without the message channel reports its events so
OnStatus ==
    /\ platformId \notin ChannelPlatforms
    /\ \E id \in UUIDs, msgType \in MsgTypes :
          \E value \in EventValues(msgType) :
             Commit(onStatus(Begin("onStatus", id, msgType, value), id, msgType, value))

ExecConstruct ==
    /\ Started /\ Executor /\ Room /\ Len(heap) < MaxHandles
    /\ \E src \in Srcs, cbs \in CallbackChoices :
          Commit(execMediaRec(Begin("MediaRec", Len(heap) + 1, 0, Text(src)), src, cbs))

ExecPlay ==
    /\ Started /\ Executor /\ Room
    /\ \E o \in Objs : Commit(execPlay(Begin("play", o, 0, Undefined), o, Undefined))

ExecStop ==
    /\ Started /\ Executor /\ Room
    /\ \E o \in Objs : Commit(execStop(Begin("stop", o, 0, Undefined), o))

ExecSeekTo ==
    /\ Started /\ Executor /\ Room
    /\ \E o \in Objs, ms \in SeekTargets :
          Commit(execSeekTo(Begin("seekTo", o, 0, Num(ms)), o, ms))

ExecPause ==
    /\ Started /\ Executor /\ Room
    /\ \E o \in Objs : Commit(execPause(Begin("pause", o, 0, Undefined), o))

ExecGetCurrentPosition ==
    /\ Started /\ Executor /\ Room
    /\ \E o \in Objs, successRaises \in BOOLEAN :
          Commit(execGetCurrentPosition(Begin("getCurrentPosition", o, 0, Undefined),
                                        o, successRaises))

ExecStartRecord ==
    /\ Started /\ Executor /\ Room
    /\ \E o \in Objs : Commit(execStartRecord(Begin("startRecord", o, 0, Undefined), o))

ExecStartRecordWithCompression ==
    /\ Started /\ Executor /\ Room
    /\ \E o \in Objs :
          Commit(startRecordWithCompression(
                    Begin("startRecordWithCompression", o, 0, Undefined), o, Undefined))

ExecStopRecord ==
    /\ Started /\ Executor /\ Room
    /\ \E o \in Objs : Commit(execStopRecord(Begin("stopRecord", o, 0, Undefined), o))

ExecPauseRecord ==
    /\ Started /\ Executor /\ Room
    /\ \E o \in Objs : Commit(pauseRecord(Begin("pauseRecord", o, 0, Undefined), o))

ExecResumeRecord ==
    /\ Started /\ Executor /\ Room
    /\ \E o \in Objs : Commit(resumeRecord(Begin("resumeRecord", o, 0, Undefined), o))

ExecGetRecordLevels ==
    /\ Started /\ Executor /\ Room
    /\ \E o \in Objs, successRaises \in BOOLEAN :
          Commit(getRecordLevels(Begin("getRecordLevels", o, 0, Undefined), o, successRaises))

ExecRelease ==
    /\ Started /\ Executor /\ Room
    /\ \E o \in Objs : Commit(execRelease(Begin("release", o, 0, Undefined), o))

ExecSetVolume ==
    /\ Started /\ Executor /\ Room
    /\ \E o \in Objs : Commit(execSetVolume(Begin("setVolume", o, 0, Num(1)), o, Num(1)))

\* the executor reports the success of a request, with a value
ExecSuccess ==
    /\ Started /\ Executor
    /\ \E i \in 1 .. Len(pending), value \in ReplyValues :
          Commit(execReply(Begin("exec.success", pending[i].obj, 0, Text(pending[i].action)),
                           i, TRUE, value))

\* the executor reports the failure of a request
ExecFailure ==
    /\ Started /\ Executor
    /\ \E i \in 1 .. Len(pending) :
          Commit(execReply(Begin("exec.failure", pending[i].obj, 0, Text(pending[i].action)),
                           i, FALSE, Err("ExecError")))

Next ==
    \/ CordovaReady \/ DeviceReady \/ OnMessageFromNative
    \/ ConstructRejected
    \/ BrowserConstruct \/ BrowserPlay \/ BrowserStop \/ BrowserSeekTo \/ BrowserPause
    \/ GetDuration \/ BrowserGetCurrentPosition \/ BrowserStartRecord \/ BrowserStopRecord
    \/ BrowserPauseRecord \/ BrowserResumeRecord \/ BrowserStartRecordWithCompression
    \/ BrowserRelease \/ BrowserSetVolume
    \/ NodeLoadStart \/ NodePlaying \/ NodeDurationChange \/ NodeError \/ NodeEnded
    \/ OnStatus
    \/ ExecConstruct \/ ExecPlay \/ ExecStop \/ ExecSeekTo \/ ExecPause
    \/ ExecGetCurrentPosition \/ ExecStartRecord \/ ExecStartRecordWithCompression
    \/ ExecStopRecord \/ ExecPauseRecord \/ ExecResumeRecord \/ ExecGetRecordLevels
    \/ ExecRelease \/ ExecSetVolume \/ ExecSuccess \/ ExecFailure

Spec == Init /\ [][Next]_vars

\* ------------------------------------------------------------- the claims
Has(tr, ev) == \E i \in 1 .. Len(tr) : tr[i].ev = ev

Count(tr, evs) == Cardinality({i \in 1 .. Len(tr) : tr[i].ev \in evs})

Holds(tr, e) == \E i \in 1 .. Len(tr) : tr[i] = e

Opt(b, e) == IF b THEN <<e>> ELSE <<>>

\* the node raised in the turn tr
NodeRaised(tr) == \E i \in 1 .. Len(tr) : tr[i].arg = Err("NodeError")

\* the turn tr paused the node
Paused(tr) == Holds(tr, Entry("node.pause", tr[1].obj, 0, Undefined))

\* the turn tr dispatched a Stopped state event
EmittedStopped(tr) ==
    \E i \in 1 .. Len(tr) : /\ tr[i].ev = "dispatch"
                            /\ tr[i].k = MEDIA_STATE
                            /\ tr[i].arg = Num(MEDIA_STOPPED)

\* C1: standalone stop() whose pause step fails reports the failure through
\* errorCallback, does not seek and emits no Stopped event (no
\* statusCallback(Stopped), no successCallback()).
C1_Claim ==
    (Browser /\ trace # <<>> /\ trace[1].ev = "stop" /\ ~Paused(trace))
    => /\ heap[trace[1].obj].errorCallback => Has(trace, "errorCallback")
       /\ ~Has(trace, "node.currentTime=")
       /\ ~EmittedStopped(trace)
       /\ ~Has(trace, "successCallback")

\* The Stopped state events of the turn tr that reach handle o.
StoppedFor(tr, o) ==
    {i \in 1 .. Len(tr) : /\ tr[i].ev = "dispatch"
                          /\ tr[i].k = MEDIA_STATE
                          /\ tr[i].obj = heap[o].id
                          /\ tr[i].arg = Num(MEDIA_STOPPED)}

\* C2: a Stopped state event dispatched to a registered handle with both
\* callbacks calls statusCallback(Stopped) and then, right after it,
\* successCallback(), once per event, in both variants.
C2_Thm ==
    \A o \in Objs :
       (heap[o].statusCallback /\ heap[o].successCallback /\ get(heap[o].id) = o)
       => /\ \A i \in StoppedFor(trace, o) :
                /\ i + 2 <= Len(trace)
                /\ trace[i + 1] = Entry("statusCallback", o, 0, Num(MEDIA_STOPPED))
                /\ trace[i + 2] = Entry("successCallback", o, 0, Undefined)
          /\ \A j \in 1 .. Len(trace) :
                (trace[j] = Entry("successCallback", o, 0, Undefined))
                => /\ j > 2
                   /\ trace[j - 1].ev = "statusCallback"
                   /\ trace[j - 2].ev = "dispatch"
                   /\ IsStopped(trace[j - 2].arg)

C2_Wit ==
    \E o \in Objs :
       /\ Executor
       /\ heap[o].statusCallback /\ heap[o].successCallback
       /\ trace = << Entry("onStatus", heap[o].id, MEDIA_STATE, Num(MEDIA_STOPPED)),
                     Entry("dispatch", heap[o].id, MEDIA_STATE, Num(MEDIA_STOPPED)),
                     Entry("statusCallback", o, 0, Num(MEDIA_STOPPED)),
                     Entry("successCallback", o, 0, Undefined) >>

\* what a standalone stop() of handle o with a working node must log
StopTrace(h, o) ==
    << Entry("stop", o, 0, Undefined), Entry("node.pause", o, 0, Undefined),
       Entry("dispatch", h.id, MEDIA_STATE, Num(MEDIA_PAUSED)) >>
    \o Opt(h.statusCallback, Entry("statusCallback", o, 0, Num(MEDIA_PAUSED)))
    \o << Entry("node.currentTime=", o, 0, Num(0)),
          Entry("dispatch", h.id, MEDIA_STATE, Num(MEDIA_STOPPED)) >>
    \o Opt(h.statusCallback, Entry("statusCallback", o, 0, Num(MEDIA_STOPPED)))
    \o Opt(h.successCallback, Entry("successCallback", o, 0, Undefined))

C3_Step ==
    \A o \in Objs :
       (/\ Browser
        /\ heap[o].node = "live"
        /\ trace'[1] = Entry("stop", o, 0, Undefined)
        /\ ~NodeRaised(trace'))
       => trace' = StopTrace(heap[o], o)

\* C3: standalone stop() on a handle whose node is present and does not fail
\* pauses the node, seeks it to zero, then emits Stopped, which calls
\* statusCallback(Stopped) and then successCallback(); errorCallback is not
\* called.
C3_Thm == [][C3_Step]_vars

C3_Wit ==
    \E o \in Objs :
       /\ Browser
       /\ heap[o].statusCallback /\ heap[o].successCallback /\ heap[o].errorCallback
       /\ trace = StopTrace(heap[o], o)

C4_Step ==
    (trace'[1].ev = "onStatus" /\ trace'[1].obj \notin DOMAIN mediaObjects)
    => /\ heap' = heap
       /\ mediaObjects' = mediaObjects
       /\ pending' = pending
       /\ trace' = << trace'[1],
                      Entry("dispatch", trace'[1].obj, trace'[1].k, trace'[1].arg),
                      Entry("console.error", trace'[1].obj, 0, Text("unknown media")) >>

\* C4: onStatus for an identifier that is not registered never raises, calls
\* no callback and changes neither a handle nor the registry, whatever the
\* kind and the value.
C4_Thm == [][C4_Step]_vars

C4_Wit ==
    /\ Objs # {}
    /\ trace # <<>>
    /\ trace[1].ev = "onStatus"
    /\ trace[1].obj \notin DOMAIN mediaObjects
    /\ trace[1].k = MEDIA_DURATION
    /\ \E o \in Objs : heap[o].statusCallback /\ heap[o].errorCallback

\* the duration getDuration must return, given the last duration event
ExpectedDuration(last) == IF last = Undefined THEN Num(-1) ELSE last

C5_Step ==
    /\ \A o \in 1 .. Len(heap') : heap'[o]._duration = ExpectedDuration(lastDuration'[o])
    /\ (trace'[1].ev = "getDuration")
       => /\ trace' = << trace'[1],
                         Entry("return", trace'[1].obj, 0,
                               ExpectedDuration(lastDuration[trace'[1].obj])) >>
          /\ heap' = heap
          /\ mediaObjects' = mediaObjects
          /\ pending' = pending

\* C5: getDuration() returns -1 until a duration event was dispatched for the
\* handle, and after one with value V it returns V, whatever else happens,
\* until the next one; getDuration issues no request and changes no state.
C5_Thm == [][C5_Step]_vars

C5_Wit ==
    /\ trace # <<>>
    /\ trace[1].ev = "getDuration"
    /\ trace[2].arg = Num(MEDIA_STOPPED)
    /\ heap[trace[1].obj]._position # Num(-1)

\* every state or error event of the turn tr reaches the callback of the
\* handle registered under its identifier
Reaches(tr, hp) ==
    \A o \in 1 .. Len(hp) : \A i \in 1 .. Len(tr) :
       (tr[i].ev = "dispatch" /\ tr[i].obj = hp[o].id)
       => /\ (tr[i].k = MEDIA_STATE /\ hp[o].statusCallback)
             => (i < Len(tr) /\ tr[i + 1] = Entry("statusCallback", o, 0, tr[i].arg))
          /\ (tr[i].k = MEDIA_ERROR /\ hp[o].errorCallback)
             => (i < Len(tr) /\ tr[i + 1] = Entry("errorCallback", o, 0, tr[i].arg))

C6_Step ==
    /\ (trace'[1].ev = "MediaRec" /\ ~Has(trace', "raise"))
       => /\ Len(heap') = Len(heap) + 1
          /\ \E id \in UUIDs : /\ id = heap'[Len(heap')].id
                               /\ id \notin DOMAIN mediaObjects
                               /\ get(id)' = Len(heap')
    /\ Reaches(trace', heap')

Cached(tr, hp) ==
    \A o \in 1 .. Len(hp) : \A i \in 1 .. Len(tr) :
       (tr[i].ev = "dispatch" /\ tr[i].obj = hp[o].id)
       => /\ tr[i].k = MEDIA_DURATION => hp[o]._duration = tr[i].arg
          /\ tr[i].k = MEDIA_POSITION => hp[o]._position = Number(tr[i].arg)

C7_Step ==
    /\ \A id \in DOMAIN mediaObjects :
          id \in DOMAIN mediaObjects' /\ mediaObjects'[id] = mediaObjects[id]
    /\ \A o \in 1 .. Len(heap') : \E id \in UUIDs : id = heap'[o].id /\ get(id)' = o
    /\ \A o \in 1 .. Len(heap) : heap'[o].id = heap[o].id
    /\ Cached(trace', heap')

\* C7: no operation, release included, removes a handle from the registry:
\* every handle stays registered under its identifier, so events that arrive
\* after release() still update its cached duration and position.
C7_Thm == [][C7_Step]_vars

C7_Wit ==
    \E o \in Objs :
       /\ heap[o].node = "orphan"
       /\ trace # <<>>
       /\ trace[1] = Entry("onStatus", heap[o].id, MEDIA_POSITION, Digits(MEDIA_STOPPED))
       /\ heap[o]._position = Num(MEDIA_STOPPED)

GetPositionAction == Text("getCurrentPositionAudio")

\* the turn tr dispatched a position event with value p for handle o
PositionEvent(tr, o, p) == Holds(tr, Entry("dispatch", heap[o].id, MEDIA_POSITION, p))

C8_ClaimStep ==
    \A o \in Objs :
       /\ (Browser /\ trace'[1] = Entry("getCurrentPosition", o, 0, Undefined)
                   /\ heap[o].node = "live")
          => /\ Holds(trace', Entry("success", o, 0, trace'[2].arg))
             /\ PositionEvent(trace', o, trace'[2].arg)
             /\ heap'[o]._position = trace'[2].arg
       /\ (trace'[1] = Entry("exec.success", o, 0, GetPositionAction))
          => /\ Holds(trace', Entry("success", o, 0, trace'[2].arg))
             /\ PositionEvent(trace', o, trace'[2].arg)
             /\ heap'[o]._position = trace'[2].arg

\* C8 as stated: when the executor or the node yields the position P, success
\* is called with P and a position status event makes the cached position P.
C8_Claim == [][C8_ClaimStep]_vars

C8_Step ==
    \A o \in Objs :
       /\ (Browser /\ trace'[1] = Entry("getCurrentPosition", o, 0, Undefined))
          => IF heap[o].node = "live"
             THEN \E p \in NodeTimes :
                     /\ trace'[2] = Entry("node.currentTime", o, 0, p)
                     /\ Holds(trace', Entry("success", o, 0, p))
                     /\ PositionEvent(trace', o, p)
                     /\ heap'[o]._position = p
             ELSE /\ Has(trace', "fail")
                  /\ ~Has(trace', "success")
                  /\ ~Has(trace', "dispatch")
                  /\ heap'[o]._position = heap[o]._position
       /\ (trace'[1] = Entry("exec.success", o, 0, GetPositionAction))
          => /\ Holds(trace', Entry("success", o, 0, trace'[2].arg))
             /\ ~Has(trace', "fail")
             /\ ~Has(trace', "dispatch")
             /\ heap'[o]._position = trace'[2].arg
       /\ (trace'[1] = Entry("exec.failure", o, 0, GetPositionAction))
          => /\ Holds(trace', Entry("fail", o, 0, trace'[2].arg))
             /\ ~Has(trace', "success")
             /\ ~Has(trace', "dispatch")
             /\ heap'[o]._position = heap[o]._position

\* C8 (amended): when the executor or the node yields the position P, success
\* is called with P and the cached position becomes P: through a position
\* status event in the standalone variant, by a plain assignment, without a
\* status event, in the executor-backed one. When the query fails, fail is
\* called and the cached position stays.
C8_Thm == [][C8_Step]_vars

C8_Wit ==
    \E o \in Objs :
       /\ trace # <<>>
       /\ trace[1] = Entry("exec.success", o, 0, GetPositionAction)
       /\ trace[2].arg = Num(MEDIA_RUNNING)
       /\ heap[o]._position = Num(MEDIA_RUNNING)
       /\ Holds(trace, Entry("success", o, 0, Num(MEDIA_RUNNING)))

\* C9: one getCurrentPosition request calls at most one of success and fail,
\* and at most once, even when the success callback raises.
C9_Claim ==
    (/\ trace # <<>>
     /\ \/ trace[1].ev = "getCurrentPosition"
        \/ trace[1].ev \in {"exec.success", "exec.failure"} /\ trace[1].arg = GetPositionAction)
    => Count(trace, {"success", "fail"}) <= 1

\* C10 as stated: the failure of any forwarded request is delivered to the
\* handle's errorCallback when it is set, or to the failure callback of the call.
C10_Claim ==
    (Executor /\ trace # <<>> /\ trace[1].ev = "exec.failure")
    => \/ Has(trace, "fail")
       \/ heap[trace[1].obj].errorCallback => Has(trace, "errorCallback")

\* the requests made with this.errorCallback as the failure callback
HandleFailureActions ==
    {"create", "stopPlayingAudio", "seekToAudio", "pausePlayingAudio",
     "startRecordingAudio", "startRecordingAudioWithCompression",
     "stopRecordingAudio", "pauseRecordingAudio", "resumeRecordingAudio", "release"}

\* the requests made with the caller's failure callback
CallerFailureActions ==
    {"getCurrentPositionAudio", "getRecordDbLevel", "getAudioRecordingLevels"}

\* the requests made without a failure callback
NoFailureActions == {"startPlayingAudio", "setVolume"}

\* C10 (amended): the failure of a forwarded request other than play and
\* setVolume is delivered once: to the caller's failure callback for
\* getCurrentPosition and getRecordLevels, else to the handle's errorCallback
\* when it is set; the failures of play and setVolume are delivered to nobody.
C10_Thm ==
    (Executor /\ trace # <<>> /\ trace[1].ev = "exec.failure")
    => LET o == trace[1].obj
           head == <<trace[1], trace[2]>>
           err == trace[2].arg
       IN /\ trace[1].arg.s \in HandleFailureActions
             => trace = head \o Opt(heap[o].errorCallback, Entry("errorCallback", o, 0, err))
          /\ trace[1].arg.s \in CallerFailureActions
             => trace = head \o <<Entry("fail", o, 0, err)>>
          /\ trace[1].arg.s \in NoFailureActions => trace = head
          /\ trace[1].arg.s \in
                HandleFailureActions \cup CallerFailureActions \cup NoFailureActions

C10_Wit ==
    \E o \in Objs :
       /\ trace # <<>>
       /\ trace[1] = Entry("exec.failure", o, 0, Text("pausePlayingAudio"))
       /\ Holds(trace, Entry("errorCallback", o, 0, Err("ExecError")))

\* the calls of a handle the executor-backed variant forwards, and the
\* request each is to make
ForwardedAs(call) ==
    CASE call = "MediaRec" -> {"create"}
      [] call = "play" -> {"startPlayingAudio"}
      [] call = "stop" -> {"stopPlayingAudio"}
      [] call = "seekTo" -> {"seekToAudio"}
      [] call = "pause" -> {"pausePlayingAudio"}
      [] call = "getCurrentPosition" -> {"getCurrentPositionAudio"}
      [] call = "startRecord" -> {"startRecordingAudio"}
      [] call = "startRecordWithCompression" -> {"startRecordingAudioWithCompression"}
      [] call = "stopRecord" -> {"stopRecordingAudio"}
      [] call = "pauseRecord" -> {"pauseRecordingAudio"}
      [] call = "resumeRecord" -> {"resumeRecordingAudio"}
      [] call = "getRecordLevels" -> {"getRecordDbLevel", "getAudioRecordingLevels"}
      [] call = "release" -> {"release"}
      [] call = "setVolume" -> {"setVolume"}
      [] OTHER -> {}

\* the request r carries the namespace tag and, first, the identifier of the
\* handle it was made on
Routed(r) ==
    /\ r.service = "MediaRec"
    /\ r.obj \in Objs
    /\ Len(r.args) >= 1
    /\ r.args[1] = Uuid(heap[r.obj].id)

\* the turn was a forwarded call of a handle
ForwardedCall == Executor /\ trace # <<>> /\ ForwardedAs(trace[1].ev) # {}

\* the turn made exactly one request, the one of its call, now in flight
OneRequest ==
    /\ Count(trace, {"exec"}) = 1
    /\ pending # <<>>
    /\ LET r == pending[Len(pending)]
       IN /\ r.obj = trace[1].obj
          /\ r.action \in ForwardedAs(trace[1].ev)
          /\ Holds(trace, Entry("exec", r.obj, 0, Text(r.action)))

\* C11 as stated: every request to the executor, messageChannel included,
\* carries the "MediaRec" tag and an argument list that begins with the
\* identifier of the handle the operation was called on, and each operation of
\* a handle makes exactly one request.
C11_Claim ==
    /\ \A i \in 1 .. Len(pending) : Routed(pending[i])
    /\ \A i \in 1 .. Len(channel) : Routed(channel[i])
    /\ ForwardedCall => OneRequest

\* C11 (amended): every request carries the "MediaRec" tag; the request of an
\* operation of a handle begins its arguments with that handle's identifier,
\* the messageChannel request has no argument; and each forwarded operation
\* that does not raise makes exactly one request. The two that raise make
\* none: a construction argscheck rejects, and getRecordLevels on a platform
\* other than android and ios, where it is not defined.
C11_Thm ==
    /\ \A i \in 1 .. Len(pending) : Routed(pending[i])
    /\ \A i \in 1 .. Len(channel) :
          /\ channel[i].service = "MediaRec"
          /\ channel[i].action = "messageChannel"
          /\ channel[i].args = <<>>
    /\ ForwardedCall
       => IF Has(trace, "raise")
          THEN /\ ~Has(trace, "exec")
               /\ \/ trace[1] = Entry("MediaRec", trace[1].obj, 0, Undefined)
                  \/ /\ trace[1].ev = "getRecordLevels"
                     /\ platformId \notin {"android", "ios"}
          ELSE OneRequest

C11_Wit ==
    /\ channel # <<>>
    /\ trace # <<>>
    /\ trace[1].ev = "resumeRecord"
    /\ pending # <<>>
    /\ pending[1].action = "resumeRecordingAudio"
    /\ pending[1].args = <<Uuid(heap[trace[1].obj].id), Text(heap[trace[1].obj].src)>>

\* the record operations of a handle
RecordCalls ==
    {"startRecord", "stopRecord", "pauseRecord", "resumeRecord", "startRecordWithCompression"}

\* what a turn that reports "not supported" for handle o must log
UnsupportedTrace(first, h, o) ==
    << first, Entry("dispatch", h.id, MEDIA_ERROR, Text("Not supported")) >>
    \o Opt(h.errorCallback, Entry("errorCallback", o, 0, Text("Not supported")))

C12_Step ==
    \A o \in Objs :
       (Browser /\ trace'[1].ev \in RecordCalls /\ trace'[1].obj = o)
       => /\ trace' = UnsupportedTrace(trace'[1], heap[o], o)
          /\ heap' = heap
          /\ mediaObjects' = mediaObjects

\* C12: in the standalone variant each of startRecord, stopRecord,
\* pauseRecord, resumeRecord and startRecordWithCompression on a registered
\* handle results in exactly one error status event ("Not supported", handed
\* to errorCallback when set), does not raise and leaves the cached duration
\* and position as they were.
C12_Claim == [][C12_Step]_vars

\* C13: in the standalone variant an error of the node with the code "source
\* not supported" reaches errorCallback as an error with the code "aborted",
\* never as "source not supported"; an error with any other code reaches it
\* as the node's own error.
C13_Thm ==
    (Browser /\ trace # <<>> /\ trace[1].ev = "onerror")
    => LET o == trace[1].obj
           received == IF trace[1].k = MEDIA_ERR_SRC_NOT_SUPPORTED
                       THEN CodeObject(MEDIA_ERR_ABORTED)
                       ELSE trace[1].arg
       IN /\ trace = << trace[1], Entry("dispatch", heap[o].id, MEDIA_ERROR, received) >>
                     \o Opt(heap[o].errorCallback, Entry("errorCallback", o, 0, received))
          /\ \A i \in 1 .. Len(trace) :
                trace[i].ev = "errorCallback"
                => trace[i].arg # CodeObject(MEDIA_ERR_SRC_NOT_SUPPORTED)

C13_Wit ==
    \E o \in Objs :
       /\ trace # <<>>
       /\ trace[1] = Entry("onerror", o, MEDIA_ERR_SRC_NOT_SUPPORTED,
                           CodeObject(MEDIA_ERR_SRC_NOT_SUPPORTED))
       /\ trace[Len(trace)] = Entry("errorCallback", o, 0, CodeObject(MEDIA_ERR_ABORTED))

\* what one call of onStatus(id, msgType, value) does to the state before
\* the turn
Dispatched(id, msgType, value) ==
    onStatus(Begin("onStatus", id, msgType, value), id, msgType, value)

C14_Step ==
    (trace'[1].ev = "onMessageFromNative")
    => LET m == trace'[1]
           head == <<m, trace'[2]>>
           d == Dispatched(m.obj, m.k, m.arg)
       IN /\ trace'[2].ev = "msg.action"
          /\ IF trace'[2].arg = Text("status")
             THEN /\ trace' = head \o SubSeq(d.trace, 2, Len(d.trace))
                  /\ Count(trace', {"dispatch"}) = 1
                  /\ trace'[3] = Entry("dispatch", m.obj, m.k, m.arg)
                  /\ heap' = d.heap
                  /\ mediaObjects' = mediaObjects
             ELSE /\ trace' = head \o <<Entry("raise", 0, 0, Err("Error"))>>
                  /\ heap' = heap
                  /\ mediaObjects' = mediaObjects
          /\ pending' = pending
          /\ channel' = channel

\* C14: a message of the executor whose action is "status" calls onStatus
\* exactly once with its (id, msgType, value); a message with any other action
\* raises an error, calls no callback and changes neither a handle nor the
\* registry; the channel stays registered, so the messages that follow are
\* handled in the same way.
C14_Thm == [][C14_Step]_vars

C14_Wit ==
    \E o \in Objs :
       /\ heap[o].statusCallback /\ heap[o].successCallback
       /\ get(heap[o].id) = o
       /\ channel # <<>>
       /\ trace = << Entry("onMessageFromNative", heap[o].id, MEDIA_STATE, Num(MEDIA_STOPPED)),
                     Entry("msg.action", 0, 0, Text("progress")),
                     Entry("raise", 0, 0, Err("Error")) >>

\* the turn was a standalone construction with valid arguments in which the
\* node could not be built
ConstructionWithoutNode ==
    /\ Browser
    /\ trace # <<>>
    /\ trace[1].ev = "MediaRec"
    /\ trace[1].arg # Undefined
    /\ ~Has(trace, "new Audio")

\* C15: when the node cannot be built during a standalone construction, the
\* constructor does not raise; after the Starting event the failure is
\* reported as an error event with the code "aborted" (to errorCallback when
\* set); the handle is registered, with duration -1 and position -1.
C15_Thm ==
    ConstructionWithoutNode
    => LET o == trace[1].obj
           h == heap[o]
           aborted == CodeObject(MEDIA_ERR_ABORTED)
       IN /\ o = Len(heap)
          /\ trace = << trace[1],
                        Entry("dispatch", h.id, MEDIA_STATE, Num(MEDIA_STARTING)) >>
                     \o Opt(h.statusCallback,
                            Entry("statusCallback", o, 0, Num(MEDIA_STARTING)))
                     \o << Entry("dispatch", h.id, MEDIA_ERROR, aborted) >>
                     \o Opt(h.errorCallback, Entry("errorCallback", o, 0, aborted))
          /\ get(h.id) = o
          /\ h._duration = Num(-1)
          /\ h._position = Num(-1)
          /\ h.node = "none"

C15_Wit ==
    /\ ConstructionWithoutNode
    /\ Len(heap) = trace[1].obj
    /\ heap[Len(heap)].errorCallback
    /\ trace[Len(trace)] = Entry("errorCallback", Len(heap), 0, CodeObject(MEDIA_ERR_ABORTED))

\* the turn tr dispatched a position event for the identifier id
HasPositionEvent(tr, id) ==
    \E i \in 1 .. Len(tr) : /\ tr[i].ev = "dispatch"
                            /\ tr[i].k = MEDIA_POSITION
                            /\ tr[i].obj = id

\* the turn tr was the successful reply to a request of handle o for one of
\* the given actions
SuccessOf(tr, o, actions) ==
    \E a \in actions : tr[1] = Entry("exec.success", o, 0, Text(a))

C16_ClaimStep ==
    \A o \in Objs :
       heap'[o]._position # heap[o]._position
       => \/ HasPositionEvent(trace', heap[o].id)
          \/ SuccessOf(trace', o, {"getCurrentPositionAudio"})

\* C16 as stated: the cached position of a handle changes only by a position
\* status event or by the successful reply to getCurrentPosition; every other
\* operation, event and reply leaves it as it was.
C16_Claim == [][C16_ClaimStep]_vars

C16_Step ==
    \A o \in Objs :
       /\ heap'[o]._position # heap[o]._position
          => \/ HasPositionEvent(trace', heap[o].id)
             \/ SuccessOf(trace', o, {"getCurrentPositionAudio", "stopPlayingAudio",
                                      "seekToAudio"})
       /\ SuccessOf(trace', o, {"stopPlayingAudio"}) => heap'[o]._position = Num(0)
       /\ SuccessOf(trace', o, {"seekToAudio", "getCurrentPositionAudio"})
          => heap'[o]._position = trace'[2].arg

\* C16 (amended): the cached position of a handle changes only by a position
\* status event, by the successful reply to getCurrentPosition or, in the
\* executor-backed variant, by the successful reply to stop (it becomes 0) or
\* to seekTo (it becomes the value of the reply); every other operation,
\* event and reply leaves it as it was.
C16_Thm == [][C16_Step]_vars

C16_Wit ==
    \E o \in Objs :
       /\ trace # <<>>
       /\ trace[1] = Entry("exec.success", o, 0, Text("stopPlayingAudio"))
       /\ heap[o]._position = Num(0)
       /\ heap[o]._duration # Num(-1)

\* the values of the entries of tr, in order
Values(tr) == [i \in 1 .. Len(tr) |-> tr[i].arg]

\* the state events of the turn tr for the identifier id, in order
StateEvents(tr, id) ==
    LET IsStateEvent(e) == e.ev = "dispatch" /\ e.k = MEDIA_STATE /\ e.obj = id
    IN SelectSeq(tr, IsStateEvent)

\* the calls of the status callback of handle o in the turn tr, in order
StatusCalls(tr, o) ==
    LET IsStatusCall(e) == e.ev = "statusCallback" /\ e.obj = o
    IN SelectSeq(tr, IsStatusCall)

\* C17: for a handle with a statusCallback, the values statusCallback is
\* called with are exactly the values of the state events dispatched for its
\* identifier, one call per event and in the order of the events; whatever was
\* delivered before, nothing is merged, dropped or reordered.
C17_Thm ==
    \A o \in Objs :
       (heap[o].statusCallback /\ get(heap[o].id) = o)
       => Values(StatusCalls(trace, o)) = Values(StateEvents(trace, heap[o].id))

C17_Wit ==
    \E o \in Objs :
       /\ heap[o].statusCallback
       /\ trace # <<>>
       /\ trace[1].ev = "stop"
       /\ Values(StatusCalls(trace, o)) = <<Num(MEDIA_PAUSED), Num(MEDIA_STOPPED)>>

\* the platforms the claim names
GatedPlatforms == {"android", "amazon-fireos", "windowsphone"}

ChannelRequest == Entry("exec", 0, 0, Text("messageChannel"))

GateCompletion == Entry("initializationComplete", 0, 0, Text("onMediaPluginReady"))

\* the turn tr registered the channel, once, and completed the gate after it
RegisteredThenCompleted(tr) ==
    /\ Count(tr, {"exec"}) = 1
    /\ Count(tr, {"initializationComplete"}) = 1
    /\ \E i, j \in 1 .. Len(tr) : i < j /\ tr[i] = ChannelRequest /\ tr[j] = GateCompletion

\* C18: in the executor-backed variant on android, amazon-fireos and
\* windowsphone the onMediaPluginReady gate exists and is completed only after
\* the messageChannel request was made, the request is made exactly once, and
\* deviceready, which waits on the gate, does not fire before; on any other
\* platform no gate exists and no messageChannel request is ever made.
C18_Thm ==
    IF Executor /\ platformId \in GatedPlatforms
    THEN /\ gate \in {"waiting", "complete"}
         /\ Len(channel) <= 1
         /\ gate = "complete" => Len(channel) = 1
         /\ startup = "deviceready" => (gate = "complete" /\ Len(channel) = 1)
         /\ (Holds(trace, ChannelRequest) \/ Holds(trace, GateCompletion))
            => (trace[1].ev = "onCordovaReady" /\ RegisteredThenCompleted(trace))
         /\ \A i \in 1 .. Len(channel) : channel[i].action = "messageChannel"
    ELSE /\ gate = "none"
         /\ channel = <<>>
         /\ ~Holds(trace, ChannelRequest)
         /\ ~Holds(trace, GateCompletion)

C18_Wit ==
    /\ platformId = "windowsphone"
    /\ startup = "cordovaready"
    /\ gate = "complete"
    /\ Len(channel) = 1
    /\ trace = << Entry("onCordovaReady", 0, 0, Undefined), ChannelRequest, GateCompletion >>

C19_Step ==
    \A o \in Objs :
       (Browser /\ heap[o].node = "orphan" /\ trace'[1] = Entry("play", o, 0, Undefined))
       => /\ ~Has(trace', "raise")
          /\ IF Has(trace', "new Audio")
             THEN /\ trace' = << trace'[1],
                                 Entry("new Audio", o, 0, Text(heap[o].src)),
                                 Entry("node.play", o, 0, Undefined) >>
                  /\ heap'[o].node = "live"
             ELSE /\ Holds(trace', Entry("dispatch", heap[o].id, MEDIA_ERROR,
                                         CodeObject(MEDIA_ERR_ABORTED)))
                  /\ ~Has(trace', "node.play")

\* C19: standalone play() on a handle whose node release() dropped builds a
\* new node and then plays it, without raising; when the node cannot be built,
\* play() reports an error event and does not raise.
C19_Claim == [][C19_Step]_vars

\* the event that the entry j of the turn tr was made on behalf of: the last
\* dispatch before j (0 when there is none)
EventOf(tr, j) ==
    LET before == {i \in 1 .. j - 1 : tr[i].ev = "dispatch"}
    IN IF before = {} THEN 0 ELSE CHOOSE i \in before : \A k \in before : k <= i

\* the value is Stopped: the number 4 or, for the == of the executor-backed
\* variant, the string "4"
StoppedValue(v) == v = Num(MEDIA_STOPPED) \/ (Executor /\ v = Digits(MEDIA_STOPPED))

\* C20: successCallback is called only on behalf of a state event with the
\* value Stopped for the identifier of its handle: not for another state
\* value, not for a duration, position, error or unknown event, not for an
\* event for another identifier; errorCallback is never called on behalf of a
\* state, duration or position event.
C20_Thm ==
    \A j \in 1 .. Len(trace) :
       LET i == EventOf(trace, j)
       IN /\ trace[j].ev = "successCallback"
             => /\ i > 0
                /\ trace[i].k = MEDIA_STATE
                /\ StoppedValue(trace[i].arg)
                /\ trace[i].obj = heap[trace[j].obj].id
                /\ get(trace[i].obj) = trace[j].obj
          /\ trace[j].ev = "errorCallback"
             => IF i > 0
                THEN /\ trace[i].k = MEDIA_ERROR
                     /\ trace[i].obj = heap[trace[j].obj].id
                ELSE trace[1].ev = "exec.failure"

C20_Wit ==
    \E o \in Objs :
       /\ heap[o].successCallback /\ heap[o].errorCallback /\ heap[o].statusCallback
       /\ trace = << Entry("onStatus", heap[o].id, MEDIA_STATE, Num(MEDIA_RUNNING)),
                     Entry("dispatch", heap[o].id, MEDIA_STATE, Num(MEDIA_RUNNING)),
                     Entry("statusCallback", o, 0, Num(MEDIA_RUNNING)) >>

====
